---- MODULE Spec2Model ----
\* A model of the tracking and counting core of MultiCamTrackerAPI:
\*   app/services/counter.py  (Counter, CounterService)
\*   app/services/tracker.py  (Tracker, TrackerService)
\*   app/api/v1/endpoints/track.py  (track_objects, process_tracking_job)
\*
\* Coordinates.  The code computes centres as x + width / 2 in floating point.
\* The model keeps every position DOUBLED (2 * x + width), so that all values
\* stay integers and every comparison and cross-product sign the code takes is
\* exact.  A crossing line is doubled the same way where it meets a position.
EXTENDS Integers, Sequences, FiniteSets, TLC

VARIABLES
    instance,   \* which class the program constructed
    counter,    \* the fields of a Counter (alone, or wrapped by a CounterService)
    service,    \* the fields of a CounterService
    tracker,    \* the fields of a Tracker
    matching,   \* the locals of the greedy loop of Tracker._match_objects
    tracker_service,  \* the fields of a TrackerService
    call,       \* the last call: its arguments and what it returned
    job         \* a tracking job: its stored document and the position of its task

vars == <<instance, counter, service, tracker, matching, tracker_service, call, job>>

\* ------------------------------------------------------------------ inputs

TrackIds == {"track_0", "track_1"}

Timestamps == {1, 2}

Directions == {"any", "positive", "negative"}

\* Crossing lines a Counter is constructed with (original units).
Lines ==
    { [x1 |-> 0, y1 |-> 1, x2 |-> 2, y2 |-> 1],     \* horizontal
      [x1 |-> 0, y1 |-> 0, x2 |-> 2, y2 |-> 2] }    \* diagonal

\* Arguments Counter.__init__ accepts although they configure no counter: a
\* line of zero length and a direction that is none of any, positive, negative
\* (beside one well-formed value of each).
UncheckedLines ==
    { [x1 |-> 1, y1 |-> 1, x2 |-> 1, y2 |-> 1],     \* zero length
      [x1 |-> 0, y1 |-> 1, x2 |-> 2, y2 |-> 1] }    \* horizontal
UncheckedDirections == {"any", "up"}

\* Boxes of the objects handed to Counter.update: x, y, width, height.
\* Their centres (1, 0), (1, 1), (1, 2) lie on either side of both lines and
\* on them.
ObjXs == {0}
ObjYs == {0, 1, 2}
ObjWidths == {2}
ObjHeights == {0}

\* Boxes [x1, y1, x2, y2] of the tracks handed to CounterService.update.
\* Their y-centres 1.5, 2 and 2.5 lie before, on and after line_position 2.
ServiceBoxes ==
    { <<0, 0, 2, 3>>, <<0, 1, 2, 3>>, <<0, 2, 2, 3>> }

\* Timestamps a CounterService.update is called with.
ServiceTimestamps == {1}

\* line_position values a CounterService is constructed with.
LinePositions == {2}

\* The most tracks one update carries.
MaxTracks == 2

\* The detections a detector hands to the Tracker: x, y, width, height,
\* confidence (in percent), class_id, and an id of the detector's own.  Their
\* centres (1, 1) and (3, 1) are exactly 2 apart.
TrackerObjects ==
    { [x |-> 0, y |-> 0, width |-> 2, height |-> 2, confidence |-> 90,
       class_id |-> 1, id |-> "uuid_a"],
      [x |-> 2, y |-> 0, width |-> 2, height |-> 2, confidence |-> 70,
       class_id |-> 2, id |-> "uuid_b"] }

\* Detections as an upstream producer may hand them over unchecked: a
\* well-formed one, one with a negative width, and one without the key
\* "width".
RawObjects ==
    { [x |-> 0, y |-> 0, width |-> 2, height |-> 2, confidence |-> 90,
       class_id |-> 1, id |-> "uuid_a"],
      [x |-> 2, y |-> 0, width |-> -2, height |-> 2, confidence |-> 70,
       class_id |-> 2, id |-> "uuid_b"],
      [x |-> 4, y |-> 0, height |-> 2, confidence |-> 80,
       class_id |-> 1, id |-> "uuid_c"] }

\* Timestamps of detection sets, in seconds.
TrackerTimestamps == {0, 2}

\* max_time_diff and max_distance values a Tracker is constructed with.
MaxTimeDiffs == {1}
MaxDistances == {2, 3}

\* The most objects one detection set carries.
MaxDetections == 2

\* Tracker.next_id is unbounded in the code; updates stop when the ids they
\* would allocate pass this number.
MaxNextId == 3

\* track_history grows without bound in the code; updates stop when a live
\* track's history has this length.
MaxHistory == 2

\* The detections handed to TrackerService.update: bbox [x1, y1, x2, y2],
\* score (in percent), class_id.  The first two boxes overlap with IoU 0.6,
\* the third touches the first and overlaps the second with IoU 1/7.
ServiceDetections ==
    { [bbox |-> <<0, 0, 4, 4>>, score |-> 90, class_id |-> 1],
      [bbox |-> <<1, 0, 5, 4>>, score |-> 80, class_id |-> 1],
      [bbox |-> <<4, 0, 8, 4>>, score |-> 70, class_id |-> 2] }

\* Timestamps and camera ids TrackerService.update is called with, and the
\* max_time_diff values a TrackerService is constructed with.
TrackerServiceTimestamps == {0, 2}
CameraIds == {"camera1", "camera2"}
ServiceMaxTimeDiffs == {1, 2}

\* Centres (doubled) and max_distance values the greedy loop is run on, and
\* the most tracks and detections it is given.
MatchPoints == { <<0, 0>>, <<2, 0>>, <<4, 0>>, <<0, 2>> }
MatchDistances == {1, 2}
MaxMatch == 2

\* CounterService.count is unbounded in the code; updates stop at this count.
MaxCount == 3

\* The objects the detector reports in the frames of a job: two boxes whose
\* centres (1, 1) and (1, 3) lie on either side of the line y = 2.
JobObjects ==
    { [x |-> 0, y |-> 0, width |-> 2, height |-> 2, confidence |-> 90,
       class_id |-> 1, id |-> "uuid_a"],
      [x |-> 0, y |-> 2, width |-> 2, height |-> 2, confidence |-> 70,
       class_id |-> 2, id |-> "uuid_b"] }

\* The configurations a request carries: none ({} is stored), or the dict of
\* a TrackingConfig / CountingConfig (confidence in percent).
TrackingConfigs ==
    { << >>,
      [max_time_diff |-> 2, min_detection_confidence |-> 30, max_distance |-> 1] }
CountingConfigs ==
    { << >> } \cup
    [ crossing_line : { [x1 |-> 0, y1 |-> 2, x2 |-> 4, y2 |-> 2] },
      direction : {"any", "positive", "negative"} ]

\* A job has any number of frames; the model gives it at most this many.
MaxFrames == 3

\* The crossing lines Counter._has_crossed_line is tried on, and the grid of
\* (doubled) centre points it is given: coordinates 0 .. GridMax.
CrossingLines ==
    { [x1 |-> 0, y1 |-> 1, x2 |-> 1, y2 |-> 1],     \* horizontal
      [x1 |-> 0, y1 |-> 0, x2 |-> 1, y2 |-> 1],     \* diagonal
      [x1 |-> 1, y1 |-> 0, x2 |-> 1, y2 |-> 2] }    \* vertical
GridMax == 4
GridPoints == (0..GridMax) \X (0..GridMax)

\* ------------------------------------------------------------------ Counter

\* np.cross of two 2-vectors.
cross(a, b) == a[1] * b[2] - a[2] * b[1]

dot(a, b) == a[1] * b[1] + a[2] * b[2]

minus(a, b) == <<a[1] - b[1], a[2] - b[2]>>

\* Counter.__init__: the fields after construction.
NewCounter(crossing_line, direction) ==
    [ crossing_line       |-> crossing_line,
      direction           |-> direction,
      object_positions    |-> << >>,
      counted_objects     |-> {},
      crossing_timestamps |-> << >>,
      counts_by_timestamp |-> << >>,
      total_count         |-> 0 ]

\* self.line_start, self.line_end (doubled).
line_start(c) == <<2 * c.crossing_line.x1, 2 * c.crossing_line.y1>>
line_end(c) == <<2 * c.crossing_line.x2, 2 * c.crossing_line.y2>>

\* self.line_normal before normalisation: the line vector rotated by 90
\* degrees.  Dividing by its norm (done when norm > 0) keeps every sign.
line_normal(c) ==
    LET line_vector == minus(line_end(c), line_start(c))
    IN  <<-line_vector[2], line_vector[1]>>

\* The centre of an object, doubled: 2 * (x + width / 2, y + height / 2).
position_of(obj) == <<2 * obj.x + obj.width, 2 * obj.y + obj.height>>

\* Counter._has_crossed_line.
has_crossed_line(c, prev_pos, curr_pos) ==
    LET v1 == minus(prev_pos, line_start(c))
        v2 == minus(curr_pos, line_start(c))
        v3 == minus(line_end(c), line_start(c))
        cross1 == cross(v1, v3)
        cross2 == cross(v2, v3)
        v4 == minus(prev_pos, curr_pos)
        v5 == minus(prev_pos, line_start(c))
        v6 == minus(prev_pos, line_end(c))
        cross3 == cross(v5, v4)
        cross4 == cross(v6, v4)
    IN  IF cross1 * cross2 <= 0 THEN cross3 * cross4 <= 0 ELSE FALSE

\* Counter._get_crossing_direction (the sign is what the caller reads).
get_crossing_direction(c, prev_pos, curr_pos) ==
    dot(minus(curr_pos, prev_pos), line_normal(c))

\* Mutant of direction_matches: the sign of the direction is not compared.
direction_matches_unsigned(filter, direction) ==
    filter \in {"any", "positive", "negative"}

\* The direction test of Counter.update.
direction_matches(filter, direction) ==
    \/ filter = "any"
    \/ filter = "positive" /\ direction > 0
    \/ filter = "negative" /\ direction < 0

\* Mutant of not_yet_counted: the counted set is not consulted.
not_yet_counted_unchecked(c, obj_id) == TRUE

\* "Only count each object once".
not_yet_counted(c, obj_id) == obj_id \notin c.counted_objects

\* sorted(objects, key=timestamp): a stable insertion sort.
RECURSIVE insert_by_timestamp(_, _)
insert_by_timestamp(sorted, obj) ==
    IF sorted = << >> THEN <<obj>>
    ELSE IF sorted[Len(sorted)].timestamp <= obj.timestamp
         THEN Append(sorted, obj)
         ELSE Append(insert_by_timestamp(SubSeq(sorted, 1, Len(sorted) - 1), obj),
                     sorted[Len(sorted)])

RECURSIVE sort_by_timestamp(_)
sort_by_timestamp(objects) ==
    IF objects = << >> THEN << >>
    ELSE insert_by_timestamp(
             sort_by_timestamp(SubSeq(objects, 1, Len(objects) - 1)),
             objects[Len(objects)])

\* Mutant of counter_loop_body: the position is stored before the crossing
\* test, so an object seen for the first time is tested against itself.
counter_loop_body_store_first(s, obj, timestamp) ==
    LET obj_id == obj.id
        position == position_of(obj)
        c == s.c
        prev_position == IF obj_id \in DOMAIN c.object_positions
                         THEN c.object_positions[obj_id] ELSE position
        direction == get_crossing_direction(c, prev_position, position)
        counts == /\ has_crossed_line(c, prev_position, position)
                  /\ direction_matches(c.direction, direction)
                  /\ not_yet_counted(c, obj_id)
        moved == [c EXCEPT !.object_positions = (obj_id :> position) @@ @]
    IN  IF counts
        THEN [ c |-> [moved EXCEPT
                        !.counted_objects = @ \cup {obj_id},
                        !.total_count = @ + 1],
               new_crossings |-> Append(s.new_crossings,
                   [ object_id |-> obj_id,
                     timestamp |-> timestamp,
                     direction |-> IF direction > 0 THEN "positive"
                                                    ELSE "negative" ]) ]
        ELSE [s EXCEPT !.c = moved]

\* One pass of the loop body of Counter.update.  s = [c, new_crossings].
counter_loop_body(s, obj, timestamp) ==
    LET c == s.c
        obj_id == obj.id
        position == position_of(obj)
    IN  IF obj_id \notin DOMAIN c.object_positions
        THEN [s EXCEPT !.c.object_positions = (obj_id :> position) @@ @]
        ELSE
          LET prev_position == c.object_positions[obj_id]
              direction == get_crossing_direction(c, prev_position, position)
              counts == /\ has_crossed_line(c, prev_position, position)
                        /\ direction_matches(c.direction, direction)
                        /\ not_yet_counted(c, obj_id)
              moved == [c EXCEPT !.object_positions = (obj_id :> position) @@ @]
          IN  IF counts
              THEN [ c |-> [moved EXCEPT
                              !.counted_objects = @ \cup {obj_id},
                              !.total_count = @ + 1],
                     new_crossings |-> Append(s.new_crossings,
                         [ object_id |-> obj_id,
                           timestamp |-> timestamp,
                           direction |-> IF direction > 0 THEN "positive"
                                                          ELSE "negative" ]) ]
              ELSE [s EXCEPT !.c = moved]

\* Mutant of counter_loop: after each pass the counted set keeps only the
\* object just processed.
RECURSIVE counter_loop_forgetting(_, _, _)
counter_loop_forgetting(s, objects, timestamp) ==
    IF objects = << >> THEN s
    ELSE LET r == counter_loop_body(s, Head(objects), timestamp)
         IN  counter_loop_forgetting(
                 [r EXCEPT !.c.counted_objects = @ \cap {Head(objects).id}],
                 Tail(objects), timestamp)

RECURSIVE counter_loop(_, _, _)
counter_loop(s, objects, timestamp) ==
    IF objects = << >> THEN s
    ELSE counter_loop(counter_loop_body(s, Head(objects), timestamp),
                      Tail(objects), timestamp)

\* Counter.update: [c |-> the counter afterwards, ret |-> the value returned].
counter_update(c, objects) ==
    IF objects = << >> THEN [c |-> c, ret |-> 0]
    ELSE
      LET sorted == sort_by_timestamp(objects)
          timestamp == sorted[1].timestamp
          s == counter_loop([c |-> c, new_crossings |-> << >>], sorted, timestamp)
          nc == s.new_crossings
      IN  IF nc # << >>
          THEN [ c |-> [s.c EXCEPT
                          !.crossing_timestamps = @ \o nc,
                          !.counts_by_timestamp = Append(@,
                              [ timestamp  |-> timestamp,
                                count      |-> Len(nc),
                                direction  |-> c.direction,
                                object_ids |-> [i \in 1..Len(nc) |-> nc[i].object_id] ])],
                 ret |-> Len(nc) ]
          ELSE [c |-> s.c, ret |-> 0]

\* obj["x"], obj["y"], obj["width"], obj["height"]: a KeyError is raised when
\* one of the keys is missing.
has_box(obj) == {"x", "y", "width", "height"} \subseteq DOMAIN obj

\* The index of the first object whose box raises KeyError, 0 for none.
first_without_box(objects) ==
    IF \A i \in 1..Len(objects) : has_box(objects[i]) THEN 0
    ELSE CHOOSE i \in 1..Len(objects) :
             /\ ~has_box(objects[i])
             /\ \A j \in 1..(i - 1) : has_box(objects[j])

\* Counter.update on unchecked objects: [c, ret, raised].  The loop raises at
\* the first object without its box (counter.py:100-103); the objects before
\* it have been processed, and the crossings they added to new_crossings are
\* not recorded (counter.py:139-148 is not reached).
counter_update_raw(c, objects) ==
    LET sorted == sort_by_timestamp(objects)
        k == first_without_box(sorted)
    IN  IF k = 0
        THEN [ c |-> counter_update(c, objects).c,
               ret |-> counter_update(c, objects).ret,
               raised |-> FALSE ]
        ELSE [ c |-> counter_loop([c |-> c, new_crossings |-> << >>],
                                  SubSeq(sorted, 1, k - 1),
                                  sorted[1].timestamp).c,
               ret |-> 0,
               raised |-> TRUE ]

\* ----------------------------------------------------------- CounterService

\* CounterService.__init__ (its own fields; the Counter it builds is `counter`).
NewCounterService(line_position, count_direction) ==
    [ line_position   |-> line_position,
      count_direction |-> count_direction,
      camera_id       |-> "camera1",
      conveyor_id     |-> "conveyor1",
      count           |-> 0,
      track_history   |-> << >> ]

\* The horizontal line CounterService.__init__ hands to Counter.
service_line(line_position) ==
    [x1 |-> 0, y1 |-> line_position, x2 |-> 1000, y2 |-> line_position]

\* y + height / 2 of a track's bbox [x1, y1, x2, y2], doubled.
service_position(bbox) == 2 * bbox[2] + (bbox[4] - bbox[2])

\* Mutant of service_crossing: a previous position on the line does not count.
service_crossing_strict(line_position, prev_position, current_position) ==
    IF prev_position < 2 * line_position /\ current_position > 2 * line_position
    THEN "positive"
    ELSE IF prev_position > 2 * line_position /\ current_position < 2 * line_position
         THEN "negative"
         ELSE ""

\* The crossing test of CounterService.update: "positive", "negative" or ""
\* (positions doubled, so the threshold is doubled as well).
service_crossing(line_position, prev_position, current_position) ==
    IF prev_position <= 2 * line_position /\ current_position > 2 * line_position
    THEN "positive"
    ELSE IF prev_position >= 2 * line_position /\ current_position < 2 * line_position
         THEN "negative"
         ELSE ""

\* "Count if crossed in the correct direction".
service_counts(count_direction, direction) ==
    direction # "" /\ (count_direction = "any" \/ direction = count_direction)

\* One pass of the loop body of CounterService.update.
\* s = [service, crossed_objects, counter_objects].
service_loop_body(s, track, timestamp) ==
    LET sv == s.service
        track_id == track.track_id
        bbox == track.bbox
        x == bbox[1]
        y == bbox[2]
        width == bbox[3] - bbox[1]
        height == bbox[4] - bbox[2]
        known == track_id \in DOMAIN sv.track_history
        current_position == service_position(bbox)
        direction ==
            IF known
            THEN service_crossing(sv.line_position,
                                  sv.track_history[track_id].position,
                                  current_position)
            ELSE ""
        hit == known /\ service_counts(sv.count_direction, direction)
        stored == (track_id :> [position |-> current_position,
                                timestamp |-> timestamp]) @@ sv.track_history
    IN  [ service |-> [sv EXCEPT !.track_history = stored,
                                 !.count = IF hit THEN @ + 1 ELSE @],
          crossed_objects |->
              IF hit
              THEN Append(s.crossed_objects,
                     [ track_id    |-> track_id,
                       timestamp   |-> timestamp,
                       direction   |-> direction,
                       camera_id   |-> sv.camera_id,
                       conveyor_id |-> sv.conveyor_id ])
              ELSE s.crossed_objects,
          counter_objects |-> Append(s.counter_objects,
              [ id |-> track_id, x |-> x, y |-> y, width |-> width,
                height |-> height, timestamp |-> timestamp ]) ]

RECURSIVE service_loop(_, _, _)
service_loop(s, tracks, timestamp) ==
    IF tracks = << >> THEN s
    ELSE service_loop(service_loop_body(s, Head(tracks), timestamp),
                      Tail(tracks), timestamp)

\* CounterService.update: the service and its Counter afterwards, and the
\* CountResult returned.
service_update(sv, c, tracks, timestamp) ==
    LET s == service_loop([service |-> sv, crossed_objects |-> << >>,
                           counter_objects |-> << >>], tracks, timestamp)
    IN  [ service |-> s.service,
          c |-> IF s.counter_objects # << >>
                THEN counter_update(c, s.counter_objects).c
                ELSE c,
          count |-> s.service.count,
          crossed_objects |-> s.crossed_objects ]

\* ------------------------------------------------- Tracker: greedy matching

\* float('inf'), as an entry of the matrix of squared distances: larger than
\* every squared distance of the model.
inf == 1000000

\* np.linalg.norm(p - q), squared, of doubled centres: 4 * distance^2.
distance2(p, q) ==
    (p[1] - q[1]) * (p[1] - q[1]) + (p[2] - q[2]) * (p[2] - q[2])

\* distance_matrix[i, j] for i < n, j < m (0-based, as in the code).
distance_matrix_of(prev_positions, curr_positions) ==
    [ ij \in (0..Len(prev_positions) - 1) \X (0..Len(curr_positions) - 1) |->
        distance2(prev_positions[ij[1] + 1], curr_positions[ij[2] + 1]) ]

\* distance_matrix.min().
matrix_min(dm) ==
    CHOOSE v \in { dm[ij] : ij \in DOMAIN dm } :
        \A ij \in DOMAIN dm : v <= dm[ij]

\* Mutant of argmin: the last of the equal minima, not the first.
argmin_last(dm, m) ==
    CHOOSE k \in { ij[1] * m + ij[2] : ij \in DOMAIN dm } :
        /\ dm[<<k \div m, k % m>>] = matrix_min(dm)
        /\ \A ij \in DOMAIN dm :
              dm[ij] = matrix_min(dm) => ij[1] * m + ij[2] <= k

\* distance_matrix.argmin(): the flat (row-major) index of the first minimum;
\* m is the number of columns.
argmin(dm, m) ==
    CHOOSE k \in { ij[1] * m + ij[2] : ij \in DOMAIN dm } :
        /\ dm[<<k \div m, k % m>>] = matrix_min(dm)
        /\ \A ij \in DOMAIN dm :
              dm[ij] = matrix_min(dm) => k <= ij[1] * m + ij[2]

\* np.unravel_index(k, (n, m)).
unravel_index(k, m) == <<k \div m, k % m>>

\* Mutant of below_max_distance: a pair at exactly max_distance still matches.
below_max_distance_inclusive(d2, max_distance) ==
    d2 <= 4 * max_distance * max_distance

\* distance < self.max_distance, on squared doubled distances.
below_max_distance(d2, max_distance) ==
    d2 < 4 * max_distance * max_distance

\* The condition of the while loop.
loop_continues(dm, max_distance) ==
    /\ DOMAIN dm # {}
    /\ below_max_distance(matrix_min(dm), max_distance)

\* distance_matrix[i, :] = inf; distance_matrix[:, j] = inf.
mark_matched(dm, i, j) ==
    [ ij \in DOMAIN dm |-> IF ij[1] = i \/ ij[2] = j THEN inf ELSE dm[ij] ]

\* One pass of the while loop.  g = [distance_matrix, matched_indices].
greedy_step(g, m) ==
    LET ij == unravel_index(argmin(g.distance_matrix, m), m)
    IN  [ distance_matrix |-> mark_matched(g.distance_matrix, ij[1], ij[2]),
          matched_indices |-> Append(g.matched_indices, ij) ]

\* The while loop, run to its end: the matched_indices it leaves.
RECURSIVE greedy_loop(_, _, _)
greedy_loop(g, m, max_distance) ==
    IF loop_continues(g.distance_matrix, max_distance)
    THEN greedy_loop(greedy_step(g, m), m, max_distance)
    ELSE g.matched_indices

\* ------------------------------------------------------------------ Tracker

\* f"track_{n}".
TrackNames == <<"track_0", "track_1", "track_2", "track_3", "track_4",
                "track_5", "track_6", "track_7", "track_8", "track_9">>
track_id(n) == TrackNames[n + 1]

\* None, for last_timestamp.
None == << >>

\* Tracker.__init__.
NewTracker(max_time_diff, max_distance) ==
    [ max_time_diff   |-> max_time_diff,
      max_distance    |-> max_distance,
      tracked_objects |-> << >>,
      last_timestamp  |-> None,
      next_id         |-> 0,
      track_history   |-> << >> ]

\* The dict built for a track from a detection (class_id by obj.get).
tracked_obj(id, obj, timestamp) ==
    [ id |-> id, x |-> obj.x, y |-> obj.y, width |-> obj.width,
      height |-> obj.height, confidence |-> obj.confidence,
      class_id |-> obj.class_id, timestamp |-> timestamp ]

\* The loop of Tracker._initialize_tracks, and of the "unmatched new
\* detections" part of _match_objects: one new track per object.
RECURSIVE add_new_tracks(_, _, _)
add_new_tracks(t, objects, timestamp) ==
    IF objects = << >> THEN t
    ELSE LET id == track_id(t.next_id)
             new_obj == tracked_obj(id, Head(objects), timestamp)
         IN  add_new_tracks(
                 [t EXCEPT !.next_id = @ + 1,
                           !.tracked_objects = Append(@, new_obj),
                           !.track_history = (id :> <<new_obj>>) @@ @],
                 Tail(objects), timestamp)

\* Mutant of initialize_tracks: the numbering starts again with the live set.
initialize_tracks_restart(t, objects, timestamp) ==
    add_new_tracks([t EXCEPT !.tracked_objects = << >>, !.next_id = 0],
                   objects, timestamp)

\* Tracker._initialize_tracks.
initialize_tracks(t, objects, timestamp) ==
    add_new_tracks([t EXCEPT !.tracked_objects = << >>], objects, timestamp)

\* Mutant of update_matched: a matched track keeps the box, confidence and
\* class it had.
RECURSIVE update_matched_stale(_, _, _, _, _)
update_matched_stale(t, prev_objects, matched_indices, objects, timestamp) ==
    IF matched_indices = << >> THEN t
    ELSE LET prev_obj == prev_objects[Head(matched_indices)[1] + 1]
             updated_obj == tracked_obj(prev_obj.id, prev_obj, timestamp)
         IN  update_matched_stale(
                 [t EXCEPT !.tracked_objects = Append(@, updated_obj),
                           !.track_history[prev_obj.id] = Append(@, updated_obj)],
                 prev_objects, Tail(matched_indices), objects, timestamp)

\* "Update matched objects": one updated track per match, its history grown.
RECURSIVE update_matched(_, _, _, _, _)
update_matched(t, prev_objects, matched_indices, objects, timestamp) ==
    IF matched_indices = << >> THEN t
    ELSE LET prev_obj == prev_objects[Head(matched_indices)[1] + 1]
             curr_obj == objects[Head(matched_indices)[2] + 1]
             updated_obj == tracked_obj(prev_obj.id, curr_obj, timestamp)
         IN  update_matched(
                 [t EXCEPT !.tracked_objects = Append(@, updated_obj),
                           !.track_history[prev_obj.id] = Append(@, updated_obj)],
                 prev_objects, Tail(matched_indices), objects, timestamp)

\* The detections no match names, in ascending index order.
unmatched_objects(objects, matched_indices) ==
    LET matched == { matched_indices[k][2] + 1 : k \in 1..Len(matched_indices) }
        Unmatched(i) == i \notin matched
        indices == SelectSeq([i \in 1..Len(objects) |-> i], Unmatched)
    IN  [k \in 1..Len(indices) |-> objects[indices[k]]]

\* The matched_indices of Tracker._match_objects for a live set and a batch.
matched_indices_of(t, objects) ==
    LET prev_positions == [i \in 1..Len(t.tracked_objects) |->
                               position_of(t.tracked_objects[i])]
        curr_positions == [j \in 1..Len(objects) |-> position_of(objects[j])]
    IN  greedy_loop([ distance_matrix |->
                          distance_matrix_of(prev_positions, curr_positions),
                      matched_indices |-> << >> ],
                    Len(objects), t.max_distance)

\* Tracker._match_objects.
match_objects(t, objects, timestamp) ==
    IF t.tracked_objects = << >> THEN initialize_tracks(t, objects, timestamp)
    ELSE IF objects = << >> THEN [t EXCEPT !.tracked_objects = << >>]
    ELSE LET matched_indices == matched_indices_of(t, objects)
             cleared == [t EXCEPT !.tracked_objects = << >>]
             updated == update_matched(cleared, t.tracked_objects,
                                       matched_indices, objects, timestamp)
         IN  add_new_tracks(updated,
                            unmatched_objects(objects, matched_indices),
                            timestamp)

\* Tracker.update.  time_diff and the order of the timestamps are only logged.
tracker_update(t, detections_t1, detections_t2) ==
    LET started == IF t.tracked_objects = << >>
                   THEN initialize_tracks(t, detections_t1.objects,
                                          detections_t1.timestamp)
                   ELSE t
        matched == match_objects(started, detections_t2.objects,
                                 detections_t2.timestamp)
    IN  [matched EXCEPT !.last_timestamp = <<detections_t2.timestamp>>]

\* Tracker._initialize_tracks on unchecked objects: [t, raised].  For an
\* object without its box the id is taken and next_id raised (tracker.py:
\* 100-101) before the dict literal raises (tracker.py:103-112); the tracks of
\* the objects before it stay.
initialize_tracks_raw(t, objects, timestamp) ==
    LET k == first_without_box(objects)
    IN  IF k = 0
        THEN [t |-> initialize_tracks(t, objects, timestamp), raised |-> FALSE]
        ELSE [t |-> [add_new_tracks([t EXCEPT !.tracked_objects = << >>],
                                    SubSeq(objects, 1, k - 1), timestamp)
                        EXCEPT !.next_id = @ + 1],
              raised |-> TRUE]

\* Tracker._match_objects on unchecked objects: [t, raised].  With a live set
\* the list of current positions is built first (tracker.py:140-143) and
\* raises before anything is changed.
match_objects_raw(t, objects, timestamp) ==
    IF t.tracked_objects = << >>
    THEN initialize_tracks_raw(t, objects, timestamp)
    ELSE IF first_without_box(objects) # 0 THEN [t |-> t, raised |-> TRUE]
    ELSE [t |-> match_objects(t, objects, timestamp), raised |-> FALSE]

\* Tracker.update on unchecked objects: [t, raised].  An exception leaves
\* what was done before it and skips the rest, last_timestamp included.
tracker_update_raw(t, detections_t1, detections_t2) ==
    LET started == IF t.tracked_objects = << >>
                   THEN initialize_tracks_raw(t, detections_t1.objects,
                                              detections_t1.timestamp)
                   ELSE [t |-> t, raised |-> FALSE]
        matched == match_objects_raw(started.t, detections_t2.objects,
                                     detections_t2.timestamp)
    IN  IF started.raised THEN started
        ELSE IF matched.raised THEN matched
        ELSE [t |-> [matched.t EXCEPT
                       !.last_timestamp = <<detections_t2.timestamp>>],
              raised |-> FALSE]

\* ----------------------------------------------------------- TrackerService

\* A dict in insertion order: a sequence of [key, value].  d[k] = v keeps the
\* place of a key the dict holds and appends a new one; del d[k] removes it.
dict_keys(d) == { d[i].key : i \in 1..Len(d) }

dict_get(d, k) == (CHOOSE i \in 1..Len(d) : d[i].key = k)

dict_put(d, k, v) ==
    IF k \in dict_keys(d)
    THEN [i \in 1..Len(d) |-> IF d[i].key = k THEN [key |-> k, value |-> v]
                                              ELSE d[i]]
    ELSE Append(d, [key |-> k, value |-> v])

dict_del(d, k) ==
    LET Other(e) == e.key # k IN SelectSeq(d, Other)

\* TrackerService.__init__.
NewTrackerService(max_time_diff) ==
    [ max_time_diff |-> max_time_diff,
      tracks        |-> << >>,
      next_id       |-> 0 ]

max2(a, b) == IF a >= b THEN a ELSE b
min2(a, b) == IF a <= b THEN a ELSE b

\* Mutant of iou_above_half: only a box identical to the track's matches.
iou_identical(bbox1, bbox2) == bbox1 = bbox2

\* TrackerService._calculate_iou(bbox1, bbox2) > 0.5, in integers:
\* intersection / union > 1/2 iff union > 0 and 2 * intersection > union.
iou_above_half(bbox1, bbox2) ==
    LET x_left == max2(bbox1[1], bbox2[1])
        y_top == max2(bbox1[2], bbox2[2])
        x_right == min2(bbox1[3], bbox2[3])
        y_bottom == min2(bbox1[4], bbox2[4])
        intersection_area == (x_right - x_left) * (y_bottom - y_top)
        bbox1_area == (bbox1[3] - bbox1[1]) * (bbox1[4] - bbox1[2])
        bbox2_area == (bbox2[3] - bbox2[1]) * (bbox2[4] - bbox2[2])
        union_area == bbox1_area + bbox2_area - intersection_area
    IN  IF x_right < x_left \/ y_bottom < y_top THEN FALSE
        ELSE union_area > 0 /\ 2 * intersection_area > union_area

\* Mutant of too_old: a track exactly max_time_diff old is dropped as well.
too_old_inclusive(timestamp, track, max_time_diff) ==
    timestamp - track.timestamp >= max_time_diff

\* "Track is too old".
too_old(timestamp, track, max_time_diff) ==
    timestamp - track.timestamp > max_time_diff

\* Mutant of other_camera: tracks of every camera are candidates.
other_camera_ignored(track, camera_id) == FALSE

\* "Only consider tracks from the same camera": TRUE when the track is skipped.
other_camera(track, camera_id) == track.camera_id # camera_id

\* The inner loop of TrackerService.update over list(self.tracks.items()):
\* `items` is what is left of that snapshot, `tracks` the dict as it stands.
\* The result is the dict afterwards and the key matched ("" for none).
RECURSIVE scan_tracks(_, _, _, _, _, _)
scan_tracks(tracks, items, det, timestamp, camera_id, max_time_diff) ==
    IF items = << >> THEN [tracks |-> tracks, matched |-> ""]
    ELSE
      LET track_key == Head(items).key
          track == Head(items).value
      IN  IF other_camera(track, camera_id)
          THEN scan_tracks(tracks, Tail(items), det, timestamp, camera_id,
                           max_time_diff)
          ELSE IF too_old(timestamp, track, max_time_diff)
          THEN scan_tracks(dict_del(tracks, track_key), Tail(items), det,
                           timestamp, camera_id, max_time_diff)
          ELSE IF iou_above_half(det.bbox, track.bbox)
          THEN [ tracks |-> dict_put(tracks, track_key,
                     [ bbox |-> det.bbox, score |-> det.score,
                       class_id |-> det.class_id, camera_id |-> camera_id,
                       timestamp |-> timestamp ]),
                 matched |-> track_key ]
          ELSE scan_tracks(tracks, Tail(items), det, timestamp, camera_id,
                           max_time_diff)

\* The loop over the detections.  s = [ts, new_tracks].
RECURSIVE tracker_service_loop(_, _, _, _)
tracker_service_loop(s, detection, timestamp, camera_id) ==
    IF detection = << >> THEN s
    ELSE
      LET det == Head(detection)
          scanned == scan_tracks(s.ts.tracks, s.ts.tracks, det, timestamp,
                                 camera_id, s.ts.max_time_diff)
          new_key == track_id(s.ts.next_id)
          new_track == [ bbox |-> det.bbox, score |-> det.score,
                         class_id |-> det.class_id, camera_id |-> camera_id,
                         timestamp |-> timestamp ]
          after ==
            IF scanned.matched # ""
            THEN [ ts |-> [s.ts EXCEPT !.tracks = scanned.tracks],
                   new_tracks |-> dict_put(s.new_tracks, scanned.matched,
                       scanned.tracks[dict_get(scanned.tracks, scanned.matched)].value) ]
            ELSE [ ts |-> [s.ts EXCEPT
                             !.tracks = dict_put(scanned.tracks, new_key, new_track),
                             !.next_id = @ + 1],
                   new_tracks |-> dict_put(s.new_tracks, new_key, new_track) ]
      IN  tracker_service_loop(after, Tail(detection), timestamp, camera_id)

\* TrackerService.update: [ts |-> the service afterwards, new_tracks |-> the
\* dict returned].  `detection` is zip(bboxes, scores, class_ids).
tracker_service_update(ts, detection, timestamp, camera_id) ==
    IF Len(detection) = 0 THEN [ts |-> ts, new_tracks |-> << >>]
    ELSE tracker_service_loop([ts |-> ts, new_tracks |-> << >>],
                              detection, timestamp, camera_id)

\* ------------------------------------------------------------ tracking jobs
\* app/api/v1/endpoints/track.py: track_objects stores a job and schedules
\* process_tracking_job, which runs the detector, a Tracker and a Counter over
\* the frames of the upload and stores the result.

\* dict.get(key, default).
config_get(config, key, default) ==
    IF key \in DOMAIN config THEN config[key] ELSE default

\* update_one(..., {"$set": fields}) on a stored document.
mongo_set(doc, fields) == fields @@ doc

\* The job document track_objects inserts.
new_job(tracking_config, counting_config) ==
    [ status          |-> "queued",
      tracking_config |-> tracking_config,
      counting_config |-> counting_config ]

\* Mutant of job_started: the first write of the task already stores the
\* final status.
job_started_completed(doc) == mongo_set(doc, [status |-> "completed"])

\* The first write of process_tracking_job.
job_started(doc) == mongo_set(doc, [status |-> "processing"])

\* Mutant of job_failed: the except branch stores a count with the failure.
job_failed_partial(doc, error) ==
    mongo_set(doc, [status |-> "failed", error |-> error, object_count |-> 0])

\* Mutant of job_failed: the except branch stores nothing.
job_failed_unrecorded(doc, error) == doc

\* The write of the except branch.
job_failed(doc, error) == mongo_set(doc, [status |-> "failed", error |-> error])

\* The line the Counter of a job gets when counting_config has none.
DefaultCrossingLine == [x1 |-> 0, y1 |-> 0, x2 |-> 100, y2 |-> 0]

\* tracker = Tracker(): the defaults of Tracker.__init__.
job_tracker(tracking_config) == NewTracker(1, 100)

\* counter = Counter(crossing_line=counting_config.get("crossing_line", ...)):
\* the direction is the default of Counter.__init__.
job_counter(counting_config) ==
    NewCounter(config_get(counting_config, "crossing_line", DefaultCrossingLine),
               "any")

\* Detector.detect over the readable frames: one detection set per frame,
\* stamped with the clock when the frame is reached.
detect(frames) ==
    [ i \in 1..Len(frames) |-> [timestamp |-> i, objects |-> frames[i]] ]

\* for i in range(1, len(detections)): tracker.update(detections[i-1],
\* detections[i]); tracked_objects.append(tracker.get_tracked_objects()).
\* s = [tracker, tracked_objects]; i counts from 2 as sequences start at 1.
RECURSIVE track_frames(_, _, _)
track_frames(s, detections, i) ==
    IF i > Len(detections) THEN s
    ELSE LET t == tracker_update(s.tracker, detections[i - 1], detections[i])
         IN  track_frames([ tracker |-> t,
                            tracked_objects |-> Append(s.tracked_objects,
                                                       t.tracked_objects) ],
                          detections, i + 1)

\* Counter.get_counts (without the clock reading).
get_counts(c) ==
    [ total_count |-> c.total_count, counted_objects |-> c.counted_objects ]

\* for objects in tracked_objects: counter.update(objects);
\* counts.append(counter.get_counts()).  s = [counter, counts].
RECURSIVE count_frames(_, _)
count_frames(s, tracked_objects) ==
    IF tracked_objects = << >> THEN s
    ELSE LET c == counter_update(s.counter, Head(tracked_objects)).c
         IN  count_frames([ counter |-> c,
                            counts |-> Append(s.counts, get_counts(c)) ],
                          Tail(tracked_objects))

RECURSIVE sum_len(_)
sum_len(lists) ==
    IF lists = << >> THEN 0 ELSE Len(Head(lists)) + sum_len(Tail(lists))

\* The try block of process_tracking_job on the frames of a found upload:
\* the Tracker and the Counter as they end, the live sets the Counter was
\* updated with, and the fields written.
process_frames(doc, frames) ==
    LET tracking_config == config_get(doc, "tracking_config", << >>)
        counting_config == config_get(doc, "counting_config", << >>)
        detections == detect(frames)
        tracked == track_frames([ tracker |-> job_tracker(tracking_config),
                                  tracked_objects |-> << >> ],
                                detections, 2)
        counted == count_frames([ counter |-> job_counter(counting_config),
                                  counts |-> << >> ],
                                tracked.tracked_objects)
        final_count == counted.counter.total_count
    IN  [ tracker |-> tracked.tracker,
          counter |-> counted.counter,
          tracked_objects |-> tracked.tracked_objects,
          result  |-> [ status                |-> "completed",
                        detection_count       |-> Len(detections),
                        tracked_objects_count |-> sum_len(tracked.tracked_objects),
                        object_count          |-> final_count,
                        results               |->
                            [ object_count        |-> final_count,
                              counts_by_timestamp |-> counted.counts ] ] ]

\* ---------------------------------------------------------------- the calls

NoDetections == [timestamp |-> 0, objects |-> << >>]

NoCall == [op |-> "none", objects |-> << >>, timestamp |-> 0, ret |-> 0,
           crossed_objects |-> << >>,
           detections_t1 |-> NoDetections, detections_t2 |-> NoDetections,
           camera_id |-> "", new_tracks |-> << >>, raised |-> FALSE,
           prev_pos |-> <<0, 0>>, curr_pos |-> <<0, 0>>, sides |-> << >>]

\* Sequences over S of length 0 .. n.
SeqsUpTo(S, n) == UNION { [1..k -> S] : k \in 0..n }

\* The detection sets a caller hands to Tracker.update: a timestamp and a
\* list of objects, no object twice in one set.
DetectionSets ==
    [ timestamp : TrackerTimestamps,
      objects : { objs \in SeqsUpTo(TrackerObjects, MaxDetections) :
                    \A i, j \in 1..Len(objs) : i # j => objs[i] # objs[j] } ]

\* detections_t1 is read for its objects and timestamp only when the tracker
\* holds no tracked objects (tracker.py:78-79); otherwise only log messages
\* depend on it, and one representative stands for all of them.
FirstSets(t) ==
    IF t.tracked_objects = << >> THEN DetectionSets ELSE {NoDetections}

\* Detection sets of unchecked objects, and those Tracker.update reads as its
\* first set.
RawDetectionSets ==
    [ timestamp : TrackerTimestamps,
      objects : { objs \in SeqsUpTo(RawObjects, MaxDetections) :
                    \A i, j \in 1..Len(objs) : i # j => objs[i] # objs[j] } ]

RawFirstSets(t) ==
    IF t.tracked_objects = << >> THEN RawDetectionSets ELSE {NoDetections}

\* The detection lists a caller hands to TrackerService.update, no detection
\* twice in one list.
ServiceDetectionLists ==
    { dets \in SeqsUpTo(ServiceDetections, MaxDetections) :
        \A i, j \in 1..Len(dets) : i # j => dets[i] # dets[j] }

\* The ids Tracker.update may allocate for these arguments.
Allocates(t, detections_t1, detections_t2) ==
    Len(detections_t2.objects)
      + (IF t.tracked_objects = << >> THEN Len(detections_t1.objects) ELSE 0)

\* The lists of objects a caller hands to Counter.update: distinct track ids
\* (a tracker's output never repeats an id), any box, and the timestamp of the
\* batch on every object (Tracker and CounterService stamp a whole list with
\* one timestamp).
CounterInputs ==
    { objs \in UNION { [1..n -> [ id : TrackIds, x : ObjXs, y : ObjYs,
                                   width : ObjWidths, height : ObjHeights,
                                   timestamp : Timestamps ]] : n \in 0..MaxTracks } :
        \A i, j \in 1..Len(objs) :
            /\ i # j => objs[i].id # objs[j].id
            /\ objs[i].timestamp = objs[j].timestamp }

\* Lists of objects for Counter.update that nobody checked: distinct ids, one
\* timestamp, centres on either side of the horizontal line, and any object
\* may lack the key "width".
RawCounterInputs ==
    { objs \in UNION { [1..n -> [ id : TrackIds, x : ObjXs, y : {0, 2},
                                   width : ObjWidths, height : ObjHeights,
                                   timestamp : ServiceTimestamps ]
                                 \cup [ id : TrackIds, x : ObjXs, y : {0},
                                        height : ObjHeights,
                                        timestamp : ServiceTimestamps ]] :
                        n \in 0..MaxTracks } :
        \A i, j \in 1..Len(objs) : i # j => objs[i].id # objs[j].id }

\* The dicts of tracks a caller hands to CounterService.update, in the dict's
\* iteration order.
ServiceInputs ==
    { tracks \in UNION { [1..n -> [track_id : TrackIds, bbox : ServiceBoxes]] :
                          n \in 0..MaxTracks } :
        \A i, j \in 1..Len(tracks) : i # j => tracks[i].track_id # tracks[j].track_id }

\* The strict side of the line on which the caller last gave each track:
\* "before" or "after" the line; a track given on the line keeps the side it
\* had, and a track never given off the line has none.
RECURSIVE seen_sides(_, _, _)
seen_sides(sides, tracks, line_position) ==
    IF tracks = << >> THEN sides
    ELSE LET track == Head(tracks)
             position == service_position(track.bbox)
             side == IF position < 2 * line_position THEN "before"
                     ELSE IF position > 2 * line_position THEN "after"
                     ELSE ""
         IN  seen_sides(IF side = "" THEN sides
                        ELSE (track.track_id :> side) @@ sides,
                        Tail(tracks), line_position)

\* ------------------------------------------------------------------ actions

IdleCounter == NewCounter(service_line(0), "any")
IdleService == NewCounterService(0, "any")
IdleTracker == NewTracker(0, 0)
IdleTrackerService == NewTrackerService(0)
IdleMatching == [ prev_positions |-> << >>, curr_positions |-> << >>,
                  max_distance |-> 0, distance_matrix |-> << >>,
                  matched_indices |-> << >>, pc |-> "idle" ]

\* No job yet: nothing stored, no task scheduled.
NoJob == [pc |-> "idle", doc |-> << >>]

InitCounter ==
    /\ instance = "Counter"
    /\ \E l \in Lines, d \in Directions : counter = NewCounter(l, d)
    /\ service = IdleService
    /\ tracker = IdleTracker
    /\ matching = IdleMatching
    /\ tracker_service = IdleTrackerService
    /\ call = NoCall
    /\ job = NoJob

\* Counter.__init__ on arguments it does not check: no condition of the
\* constructor looks at the length of the line or at the direction's value.
InitCounterUnchecked ==
    /\ instance = "Counter"
    /\ \E l \in UncheckedLines, d \in UncheckedDirections :
          counter = NewCounter(l, d)
    /\ service = IdleService
    /\ tracker = IdleTracker
    /\ matching = IdleMatching
    /\ tracker_service = IdleTrackerService
    /\ call = NoCall
    /\ job = NoJob

InitCounterService ==
    /\ instance = "CounterService"
    /\ \E p \in LinePositions, d \in Directions :
          /\ service = NewCounterService(p, d)
          /\ counter = NewCounter(service_line(p), d)
    /\ tracker = IdleTracker
    /\ matching = IdleMatching
    /\ tracker_service = IdleTrackerService
    /\ call = NoCall
    /\ job = NoJob

InitTracker ==
    /\ instance = "Tracker"
    /\ \E max_time_diff \in MaxTimeDiffs, max_distance \in MaxDistances :
          tracker = NewTracker(max_time_diff, max_distance)
    /\ counter = IdleCounter
    /\ service = IdleService
    /\ matching = IdleMatching
    /\ tracker_service = IdleTrackerService
    /\ call = NoCall
    /\ job = NoJob

InitTrackerService ==
    /\ instance = "TrackerService"
    /\ \E max_time_diff \in ServiceMaxTimeDiffs :
          tracker_service = NewTrackerService(max_time_diff)
    /\ counter = IdleCounter
    /\ service = IdleService
    /\ tracker = IdleTracker
    /\ matching = IdleMatching
    /\ call = NoCall
    /\ job = NoJob

\* The greedy loop of _match_objects about to start on a matrix with at least
\* one row and one column (tracker.py:146-148 returns before it otherwise).
InitMatching ==
    /\ instance = "Tracker._match_objects"
    /\ \E prev_positions \in SeqsUpTo(MatchPoints, MaxMatch),
          curr_positions \in SeqsUpTo(MatchPoints, MaxMatch),
          max_distance \in MatchDistances :
          /\ prev_positions # << >>
          /\ curr_positions # << >>
          /\ matching = [ prev_positions |-> prev_positions,
                          curr_positions |-> curr_positions,
                          max_distance |-> max_distance,
                          distance_matrix |->
                              distance_matrix_of(prev_positions, curr_positions),
                          matched_indices |-> << >>,
                          pc |-> "loop" ]
    /\ counter = IdleCounter
    /\ service = IdleService
    /\ tracker = IdleTracker
    /\ tracker_service = IdleTrackerService
    /\ call = NoCall
    /\ job = NoJob

CounterUpdate ==
    /\ instance = "Counter"
    /\ \E objects \in CounterInputs :
          \E r \in {counter_update(counter, objects)} :
              /\ counter' = r.c
              /\ call' = [NoCall EXCEPT !.op = "Counter.update",
                                        !.objects = objects,
                                        !.ret = r.ret]
    /\ UNCHANGED <<instance, service, tracker, matching, tracker_service, job>>

\* Counter.update on objects nobody checked.
CounterUpdateRaw ==
    /\ instance = "Counter"
    /\ \E objects \in RawCounterInputs :
          \E r \in {counter_update_raw(counter, objects)} :
              /\ counter' = r.c
              /\ call' = [NoCall EXCEPT !.op = "Counter.update",
                                        !.objects = objects,
                                        !.ret = r.ret,
                                        !.raised = r.raised]
    /\ UNCHANGED <<instance, service, tracker, matching, tracker_service, job>>

CounterServiceUpdate ==
    /\ instance = "CounterService"
    /\ service.count < MaxCount
    /\ \E tracks \in ServiceInputs, timestamp \in ServiceTimestamps :
          \E r \in {service_update(service, counter, tracks, timestamp)} :
              /\ service' = r.service
              /\ counter' = r.c
              /\ call' = [NoCall EXCEPT !.op = "CounterService.update",
                                        !.objects = tracks,
                                        !.timestamp = timestamp,
                                        !.ret = r.count,
                                        !.crossed_objects = r.crossed_objects,
                                        !.sides = seen_sides(call.sides, tracks,
                                                      service.line_position)]
    /\ UNCHANGED <<instance, tracker, matching, tracker_service, job>>

TrackerUpdate ==
    /\ instance = "Tracker"
    /\ \A i \in 1..Len(tracker.tracked_objects) :
          Len(tracker.track_history[tracker.tracked_objects[i].id]) < MaxHistory
    /\ \E detections_t1 \in FirstSets(tracker), detections_t2 \in DetectionSets :
          /\ tracker.next_id + Allocates(tracker, detections_t1, detections_t2)
                <= MaxNextId
          /\ tracker' = tracker_update(tracker, detections_t1, detections_t2)
          /\ call' = [NoCall EXCEPT !.op = "Tracker.update",
                                    !.detections_t1 = detections_t1,
                                    !.detections_t2 = detections_t2]
    /\ UNCHANGED <<instance, counter, service, matching, tracker_service, job>>

\* Tracker.update on detection sets nobody checked.
TrackerUpdateRaw ==
    /\ instance = "Tracker"
    /\ \A i \in 1..Len(tracker.tracked_objects) :
          Len(tracker.track_history[tracker.tracked_objects[i].id]) < MaxHistory
    /\ \E detections_t1 \in RawFirstSets(tracker),
          detections_t2 \in RawDetectionSets :
          /\ tracker.next_id + Allocates(tracker, detections_t1, detections_t2)
                <= MaxNextId
          /\ \E r \in { tracker_update_raw(tracker, detections_t1,
                                             detections_t2) } :
                /\ tracker' = r.t
                /\ call' = [NoCall EXCEPT !.op = "Tracker.update",
                                          !.detections_t1 = detections_t1,
                                          !.detections_t2 = detections_t2,
                                          !.raised = r.raised]
    /\ UNCHANGED <<instance, counter, service, matching, tracker_service, job>>

TrackerServiceUpdate ==
    /\ instance = "TrackerService"
    /\ \E detection \in ServiceDetectionLists,
          timestamp \in TrackerServiceTimestamps, camera_id \in CameraIds :
          /\ tracker_service.next_id + Len(detection) <= MaxNextId
          /\ \E r \in { tracker_service_update(tracker_service, detection,
                                                timestamp, camera_id) } :
                /\ tracker_service' = r.ts
                /\ call' = [NoCall EXCEPT !.op = "TrackerService.update",
                                          !.objects = detection,
                                          !.timestamp = timestamp,
                                          !.camera_id = camera_id,
                                          !.new_tracks = r.new_tracks]
    /\ UNCHANGED <<instance, counter, service, tracker, matching, job>>

\* One pass of the while loop of _match_objects.
MatchStep ==
    /\ instance = "Tracker._match_objects"
    /\ matching.pc = "loop"
    /\ loop_continues(matching.distance_matrix, matching.max_distance)
    /\ \E g \in { greedy_step(matching, Len(matching.curr_positions)) } :
          matching' = [matching EXCEPT
                         !.distance_matrix = g.distance_matrix,
                         !.matched_indices = g.matched_indices]
    /\ UNCHANGED <<instance, counter, service, tracker, tracker_service, call, job>>

\* The while loop ends.
MatchExit ==
    /\ instance = "Tracker._match_objects"
    /\ matching.pc = "loop"
    /\ ~loop_continues(matching.distance_matrix, matching.max_distance)
    /\ matching' = [matching EXCEPT !.pc = "done"]
    /\ UNCHANGED <<instance, counter, service, tracker, tracker_service, call, job>>

\* The object lists of the frames of an upload: the detector reports at
\* least one object per frame it could read.
Frames ==
    SeqsUpTo({ objs \in SeqsUpTo(JobObjects, MaxDetections) :
                 /\ objs # << >>
                 /\ \A i, j \in 1..Len(objs) : i # j => objs[i] # objs[j] },
             MaxFrames)

InitJob ==
    /\ instance = "Job"
    /\ counter = IdleCounter
    /\ service = IdleService
    /\ tracker = IdleTracker
    /\ matching = IdleMatching
    /\ tracker_service = IdleTrackerService
    /\ call = NoCall
    /\ job = NoJob

\* track_objects for an upload that exists: the job is stored as queued and
\* its task scheduled.
JobSubmit ==
    /\ instance = "Job"
    /\ job.pc = "idle"
    /\ \E tracking_config \in TrackingConfigs, counting_config \in CountingConfigs :
          job' = [ pc  |-> "scheduled",
                   doc |-> new_job(tracking_config, counting_config) ]
    /\ UNCHANGED <<instance, counter, service, tracker, matching,
                   tracker_service, call>>

\* process_tracking_job up to its first write.
JobStart ==
    /\ instance = "Job"
    /\ job.pc = "scheduled"
    /\ job' = [pc |-> "started", doc |-> job_started(job.doc)]
    /\ UNCHANGED <<instance, counter, service, tracker, matching,
                   tracker_service, call>>

\* The rest of process_tracking_job: the try block and the write that ends
\* it, of the result or, when the upload is not found, of the failure.  The
\* try block writes nothing before its last statement, so an exception
\* raised anywhere in it reaches the except branch with the document as the
\* first write left it.
\* tracker and counter hold the task's Tracker and Counter as they end,
\* call.objects the live sets its Counter was updated with, in order.
JobProcess ==
    /\ instance = "Job"
    /\ job.pc = "started"
    /\ \/ /\ job' = [ pc  |-> "done",
                      doc |-> job_failed(job.doc, "Upload not found") ]
          /\ UNCHANGED <<tracker, counter, call>>
       \/ \E frames \in Frames :
            \E r \in { process_frames(job.doc, frames) } :
               /\ job' = [pc |-> "done", doc |-> mongo_set(job.doc, r.result)]
               /\ tracker' = r.tracker
               /\ counter' = r.counter
               /\ call' = [NoCall EXCEPT !.op = "process_tracking_job",
                                         !.objects = r.tracked_objects]
    /\ UNCHANGED <<instance, service, matching, tracker_service>>

\* A Counter whose segment test is called on its own.
InitCrossing ==
    /\ instance = "Counter._has_crossed_line"
    /\ \E l \in CrossingLines : counter = NewCounter(l, "any")
    /\ service = IdleService
    /\ tracker = IdleTracker
    /\ matching = IdleMatching
    /\ tracker_service = IdleTrackerService
    /\ call = NoCall
    /\ job = NoJob

\* Counter._has_crossed_line(prev_pos, curr_pos).  The method reads the line
\* and its arguments only, so one call per behaviour shows all it can return.
CrossingTest ==
    /\ instance = "Counter._has_crossed_line"
    /\ call.op = "none"
    /\ \E prev_pos \in GridPoints, curr_pos \in GridPoints :
          call' = [NoCall EXCEPT !.op = "Counter._has_crossed_line",
                                 !.prev_pos = prev_pos,
                                 !.curr_pos = curr_pos,
                                 !.ret = has_crossed_line(counter, prev_pos,
                                                          curr_pos)]
    /\ UNCHANGED <<instance, counter, service, tracker, matching,
                   tracker_service, job>>

\* The segment test of a Counter, on every pair of grid points.
SpecCrossing == InitCrossing /\ [][CrossingTest]_vars

\* A Counter on its own.
SpecCounter == InitCounter /\ [][CounterUpdate]_vars

\* A Counter constructed from arguments of any value.
SpecCounterUnchecked == InitCounterUnchecked /\ [][CounterUpdate]_vars

\* A CounterService and the Counter it wraps.
SpecCounterService == InitCounterService /\ [][CounterServiceUpdate]_vars

\* Either of the two counters.
InitCounting == InitCounter \/ InitCounterService
NextCounting == CounterUpdate \/ CounterServiceUpdate
SpecCounting == InitCounting /\ [][NextCounting]_vars

\* A Tracker.
SpecTracker == InitTracker /\ [][TrackerUpdate]_vars

\* A Tracker fed with unchecked detections.
SpecTrackerRaw == InitTracker /\ [][TrackerUpdateRaw]_vars

\* A Tracker or a Counter fed with unchecked input.
InitUnchecked == InitTracker \/ InitCounterUnchecked
NextUnchecked == TrackerUpdateRaw \/ CounterUpdateRaw
SpecUnchecked == InitUnchecked /\ [][NextUnchecked]_vars

\* A TrackerService.
SpecTrackerService == InitTrackerService /\ [][TrackerServiceUpdate]_vars

\* Either of the two trackers.
InitTracking == InitTracker \/ InitTrackerService
NextTracking == TrackerUpdate \/ TrackerServiceUpdate
SpecTracking == InitTracking /\ [][NextTracking]_vars

\* The greedy loop of Tracker._match_objects, pass by pass.
NextMatching == MatchStep \/ MatchExit
SpecMatching == InitMatching /\ [][NextMatching]_vars

\* A tracking job from the request to the end of its task.
NextJob == JobSubmit \/ JobStart \/ JobProcess
SpecJob == InitJob /\ [][NextJob]_vars

\* The same under a fair scheduler: a scheduled task is started, and a started
\* task runs on to its last write (its loops run over finite lists).
SpecJobFair ==
    InitJob /\ [][NextJob]_vars /\ WF_vars(JobStart) /\ WF_vars(JobProcess)

Init == InitCounter \/ InitCounterUnchecked \/ InitCounterService \/ InitTracker
          \/ InitTrackerService \/ InitMatching \/ InitJob \/ InitCrossing
Next == CounterUpdate \/ CounterUpdateRaw \/ CounterServiceUpdate \/ TrackerUpdate
          \/ TrackerUpdateRaw \/ TrackerServiceUpdate \/ MatchStep \/ MatchExit
          \/ JobSubmit \/ JobStart \/ JobProcess \/ CrossingTest
Spec == Init /\ [][Next]_vars

\* ------------------------------------------------------------------- claims

\* The ids the events of a sequence name.
EventIds(events) == { events[i].object_id : i \in 1..Len(events) }

\* The events a step appended to a sequence.
Appended(before, after) == SubSeq(after, Len(before) + 1, Len(after))

\* C1.  Counter, general line-segment mode: after any sequence of
\* Counter.update calls every track id is named by at most one recorded
\* crossing event, and total_count was raised once per event, so at most once
\* per id, however often the track crosses, disappears and comes back.
C1_CounterAtMostOnce ==
    instance = "Counter" =>
        /\ \A i, j \in 1..Len(counter.crossing_timestamps) :
              i # j => counter.crossing_timestamps[i].object_id
                         # counter.crossing_timestamps[j].object_id
        /\ counter.total_count = Len(counter.crossing_timestamps)
        /\ counter.total_count = Cardinality(EventIds(counter.crossing_timestamps))

\* C1 witness.  Filter "any", horizontal line y = 1: track_0 was counted moving
\* in the positive direction (so it ended at y >= 1), the last update moved or
\* kept it at y = 0 after that, which meets the line again, and nothing more
\* was counted: a repeated crossing of a counted track.
C1_Witness ==
    /\ instance = "Counter"
    /\ counter.direction = "any"
    /\ counter.crossing_line = [x1 |-> 0, y1 |-> 1, x2 |-> 2, y2 |-> 1]
    /\ Len(counter.crossing_timestamps) = 1
    /\ counter.crossing_timestamps[1].object_id = "track_0"
    /\ counter.crossing_timestamps[1].direction = "positive"
    /\ counter.object_positions["track_0"] = <<2, 0>>
    /\ call.ret = 0
    /\ \E i \in 1..Len(call.objects) : call.objects[i].id = "track_0"

\* C2 (as claimed).  CounterService, horizontal-threshold mode: a track id is
\* emitted in at most one crossed_objects entry and raises count at most once,
\* so count never exceeds the number of tracks the service has seen.
C2_ServiceAtMostOnce ==
    instance = "CounterService" =>
        service.count <= Cardinality(DOMAIN service.track_history)

\* The direction CounterService.update has to report for a track, from the
\* position stored before the call and the y-centre (y1 + y2) / 2 of its box
\* (both doubled): "positive", "negative", or "" for no crossing.
C3_Crossing(sv, t) ==
    IF t.track_id \notin DOMAIN sv.track_history THEN ""
    ELSE LET p == sv.track_history[t.track_id].position
             c == t.bbox[2] + t.bbox[4]
             line == 2 * sv.line_position
         IN  IF p <= line /\ line < c THEN "positive"
             ELSE IF p >= line /\ line > c THEN "negative"
             ELSE ""

C3_Accepted(sv, t) ==
    /\ C3_Crossing(sv, t) # ""
    /\ sv.count_direction \in {"any", C3_Crossing(sv, t)}

\* C3.  Every CounterService.update returns in crossed_objects exactly the
\* tracks of that update with a stored previous y-centre p and a current
\* y-centre c such that p <= line < c (positive) or p >= line > c (negative)
\* and whose direction the filter accepts, in the order given; tracks that do
\* not cross add no entry; count grows by the number of entries and is the
\* count returned.
C3_ServiceCrossedExactly ==
    [][ call'.op = "CounterService.update" =>
          LET Crossing(t) == C3_Accepted(service, t)
              expected == SelectSeq(call'.objects, Crossing)
              crossed == call'.crossed_objects
          IN  /\ Len(crossed) = Len(expected)
              /\ \A i \in 1..Len(expected) :
                    /\ crossed[i].track_id = expected[i].track_id
                    /\ crossed[i].direction = C3_Crossing(service, expected[i])
                    /\ crossed[i].timestamp = call'.timestamp
              /\ service'.count = service.count + Len(crossed)
              /\ call'.ret = service'.count ]_vars

\* C3 witness.  An update with two tracks of which exactly one crossed.
C3_Witness ==
    /\ instance = "CounterService"
    /\ call.op = "CounterService.update"
    /\ Len(call.objects) = 2
    /\ Len(call.crossed_objects) = 1
    /\ call.ret = 1

\* The sign the filter asks of a movement: TRUE when it is allowed.
C4_SignAllowed(filter, d) ==
    /\ filter = "positive" => d > 0
    /\ filter = "negative" => d < 0

\* C4.  Direction filter.  Counter (alone or wrapped): every event an update records has, with
\* filter "positive", a movement (stored position before, stored position
\* after) with a positive component along the line's normal and is labelled
\* positive, and with filter "negative" a negative one and is labelled
\* negative; total_count grows by the number of such events only.
\* CounterService: every crossed_objects entry has the filter's direction, its
\* track moved across the threshold in that direction, and count grows by the
\* number of entries only.
C4_DirectionFilter ==
    [][ /\ LET new == Appended(counter.crossing_timestamps,
                                counter'.crossing_timestamps)
                normal == <<-(counter.crossing_line.y2 - counter.crossing_line.y1),
                            counter.crossing_line.x2 - counter.crossing_line.x1>>
            IN  /\ \A i \in 1..Len(new) :
                     LET id == new[i].object_id
                         before == counter.object_positions[id]
                         after == counter'.object_positions[id]
                         d == (after[1] - before[1]) * normal[1]
                              + (after[2] - before[2]) * normal[2]
                     IN  /\ C4_SignAllowed(counter.direction, d)
                         /\ counter.direction # "any"
                              => new[i].direction = counter.direction
                /\ counter'.total_count = counter.total_count + Len(new)
        /\ call'.op = "CounterService.update" =>
            /\ \A i \in 1..Len(call'.crossed_objects) :
                  LET e == call'.crossed_objects[i]
                      before == service.track_history[e.track_id].position
                      after == service'.track_history[e.track_id].position
                  IN  /\ C4_SignAllowed(service.count_direction, after - before)
                      /\ service.count_direction # "any"
                           => e.direction = service.count_direction
            /\ service'.count = service.count + Len(call'.crossed_objects) ]_vars

\* C4 witness.  A CounterService with filter "positive" that has seen one
\* track only and counted it once (it ended after the line); the last update
\* brought the track back before the line, a negative crossing on the way,
\* and the count is still 1.
C4_Witness ==
    /\ instance = "CounterService"
    /\ service.count_direction = "positive"
    /\ DOMAIN service.track_history = {"track_0"}
    /\ service.count = 1
    /\ service.track_history["track_0"].position < 2 * service.line_position
    /\ call.crossed_objects = << >>
    /\ Len(call.objects) = 1

\* C5.  First sighting never counts.  In the update in which a counter
\* instance sees a track id for the first time, that track adds no event, is
\* not marked counted, and its centre is stored as the prior position; an
\* update made of first sightings only leaves the count unchanged.
C5_FirstSighting ==
    [][ /\ call'.op = "Counter.update" =>
            LET objs == call'.objects
                first == { i \in 1..Len(objs) :
                             objs[i].id \notin DOMAIN counter.object_positions }
                new == Appended(counter.crossing_timestamps,
                                counter'.crossing_timestamps)
            IN  /\ \A i \in first :
                     /\ objs[i].id \notin EventIds(new)
                     /\ objs[i].id \notin counter'.counted_objects
                     /\ objs[i].id \in DOMAIN counter'.object_positions
                     /\ counter'.object_positions[objs[i].id]
                          = <<2 * objs[i].x + objs[i].width,
                              2 * objs[i].y + objs[i].height>>
                /\ first = 1..Len(objs) =>
                     /\ counter'.total_count = counter.total_count
                     /\ call'.ret = 0
        /\ call'.op = "CounterService.update" =>
            LET tracks == call'.objects
                first == { i \in 1..Len(tracks) :
                             tracks[i].track_id \notin DOMAIN service.track_history }
            IN  /\ \A i \in first :
                     /\ \A k \in 1..Len(call'.crossed_objects) :
                           call'.crossed_objects[k].track_id # tracks[i].track_id
                     /\ tracks[i].track_id \in DOMAIN service'.track_history
                     /\ service'.track_history[tracks[i].track_id].position
                          = tracks[i].bbox[2] + tracks[i].bbox[4]
                /\ first = 1..Len(tracks) =>
                     /\ service'.count = service.count
                     /\ call'.crossed_objects = << >> ]_vars

\* C5 witness.  A Counter with filter "any" whose first update carried one
\* object lying exactly on the line: stored, and nothing counted.
C5_Witness ==
    /\ instance = "Counter"
    /\ counter.direction = "any"
    /\ call.op = "Counter.update"
    /\ Len(call.objects) = 1
    /\ DOMAIN counter.object_positions = {call.objects[1].id}
    /\ counter.object_positions[call.objects[1].id] = <<2, 2>>
    /\ counter.total_count = 0
    /\ counter.crossing_timestamps = << >>

\* The ids of the live set of a Tracker.
LiveIds(t) == { t.tracked_objects[i].id : i \in 1..Len(t.tracked_objects) }

\* The ids f"track_{n}" for n below next_id: the ids allocated so far.
AllocatedIds(next_id) == { track_id(n) : n \in 0..(next_id - 1) }

\* The keys of a dict, one per entry.
C6_KeysDistinct(d) ==
    \A i, j \in 1..Len(d) : i # j => d[i].key # d[j].key

\* C6.  Track-id uniqueness.  In a Tracker no two tracks of the live set hold
\* the same id, the ids with a history are exactly the ids allocated so far
\* (track_0 .. track_{next_id - 1}) and the live ids are among them; in a
\* TrackerService the tracks dict and the dict returned hold each id once, and
\* only allocated ids.  In every update next_id never decreases and an id that
\* enters the live set was not allocated before the update, also when the live
\* set was empty and is initialised again.
C6_TrackIdsUnique ==
    /\ [](instance = "Tracker" =>
            /\ \A i, j \in 1..Len(tracker.tracked_objects) :
                  i # j => tracker.tracked_objects[i].id
                             # tracker.tracked_objects[j].id
            /\ DOMAIN tracker.track_history = AllocatedIds(tracker.next_id)
            /\ LiveIds(tracker) \subseteq AllocatedIds(tracker.next_id))
    /\ [](instance = "TrackerService" =>
            /\ C6_KeysDistinct(tracker_service.tracks)
            /\ C6_KeysDistinct(call.new_tracks)
            /\ dict_keys(tracker_service.tracks)
                 \subseteq AllocatedIds(tracker_service.next_id)
            /\ dict_keys(call.new_tracks)
                 \subseteq AllocatedIds(tracker_service.next_id))
    /\ [][ /\ tracker'.next_id >= tracker.next_id
           /\ \A id \in LiveIds(tracker') \ LiveIds(tracker) :
                 id \notin AllocatedIds(tracker.next_id)
           /\ tracker_service'.next_id >= tracker_service.next_id
           /\ \A id \in dict_keys(tracker_service'.tracks)
                          \ dict_keys(tracker_service.tracks) :
                 id \notin AllocatedIds(tracker_service.next_id) ]_vars

\* C6 witness.  A Tracker whose live set had become empty after track_0: the
\* last update initialised it again from a first set of one object, which got
\* track_1 and was matched by the second set.
C6_Witness ==
    /\ instance = "Tracker"
    /\ Len(call.detections_t1.objects) = 1
    /\ LiveIds(tracker) = {"track_1"}
    /\ DOMAIN tracker.track_history = {"track_0", "track_1"}
    /\ Len(tracker.track_history["track_1"]) = 2

\* The squared doubled distance of the pair a match names.
C7_Distance2(m, ij) ==
    distance2(m.prev_positions[ij[1] + 1], m.curr_positions[ij[2] + 1])

\* C7.  Distance bound.  Every pair the greedy loop of _match_objects has
\* bound has a centre distance strictly below max_distance (on doubled
\* centres: squared distance below 4 * max_distance^2), so that a pair at
\* exactly max_distance or more is never among the matches.
C7_DistanceBound ==
    instance = "Tracker._match_objects" =>
        \A k \in 1..Len(matching.matched_indices) :
            C7_Distance2(matching, matching.matched_indices[k])
                < 4 * matching.max_distance * matching.max_distance

\* C7 witness.  The loop has ended with one match, and a track and a detection
\* exactly max_distance apart were both left unmatched.
C7_Witness ==
    /\ instance = "Tracker._match_objects"
    /\ matching.pc = "done"
    /\ Len(matching.matched_indices) = 1
    /\ \E i \in 0..Len(matching.prev_positions) - 1,
          j \in 0..Len(matching.curr_positions) - 1 :
          /\ i # matching.matched_indices[1][1]
          /\ j # matching.matched_indices[1][2]
          /\ C7_Distance2(matching, <<i, j>>)
               = 4 * matching.max_distance * matching.max_distance

\* The reference procedure on the tracks `rows` and detections `cols` still
\* available: among the pairs below max_distance take the one of smallest
\* distance, among equal ones the first by track index, then detection index;
\* exclude its track and detection; repeat.
RECURSIVE C8_Reference(_, _, _)
C8_Reference(m, rows, cols) ==
    LET near == { ij \in rows \X cols :
                    C7_Distance2(m, ij) < 4 * m.max_distance * m.max_distance }
        Before(a, b) ==
            \/ C7_Distance2(m, a) < C7_Distance2(m, b)
            \/ /\ C7_Distance2(m, a) = C7_Distance2(m, b)
               /\ \/ a[1] < b[1]
                  \/ a[1] = b[1] /\ a[2] <= b[2]
        best == CHOOSE a \in near : \A b \in near : Before(a, b)
    IN  IF near = {} THEN << >>
        ELSE <<best>> \o C8_Reference(m, rows \ {best[1]}, cols \ {best[2]})

\* C8.  Greedy matching equals the reference procedure: at every pass the
\* matches made so far are the first picks of the reference procedure, when
\* the loop has ended they are all of them, and no track and no detection is
\* in two matches.
C8_GreedyIsReference ==
    instance = "Tracker._match_objects" =>
        LET reference == C8_Reference(matching,
                                      0..Len(matching.prev_positions) - 1,
                                      0..Len(matching.curr_positions) - 1)
            matched == matching.matched_indices
        IN  /\ Len(matched) <= Len(reference)
            /\ matched = SubSeq(reference, 1, Len(matched))
            /\ matching.pc = "done" => matched = reference
            /\ \A k, l \in 1..Len(matched) :
                  k # l => /\ matched[k][1] # matched[l][1]
                           /\ matched[k][2] # matched[l][2]

\* C8 witness.  One track, two detections at the same distance below
\* max_distance: the loop has ended and bound the track to the first of them.
C8_Witness ==
    /\ instance = "Tracker._match_objects"
    /\ matching.pc = "done"
    /\ Len(matching.prev_positions) = 1
    /\ Len(matching.curr_positions) = 2
    /\ matching.curr_positions[1] # matching.curr_positions[2]
    /\ C7_Distance2(matching, <<0, 0>>) = C7_Distance2(matching, <<0, 1>>)
    /\ matching.matched_indices = << <<0, 0>> >>

\* The entries of a tracks dict of the camera, and those of them more than
\* max_time_diff older than the timestamp.
C9_SameCamera(ts, camera_id) ==
    { i \in 1..Len(ts.tracks) : ts.tracks[i].value.camera_id = camera_id }

C9_Expired(ts, timestamp, camera_id) ==
    { i \in C9_SameCamera(ts, camera_id) :
        timestamp - ts.tracks[i].value.timestamp > ts.max_time_diff }

\* C9.  TrackerService expiry.  In every TrackerService.update with at least
\* one detection: a track of the camera whose last update is more than
\* max_time_diff before the timestamp is not among the tracks returned, so no
\* detection got its id; when every track of the camera is that old, every
\* detection got an id allocated in this update; and when the update has one
\* detection and the only track of the camera is exactly max_time_diff old
\* and at the detection's box, the detection got that track's id.
C9_ServiceExpiry ==
    [][ (call'.op = "TrackerService.update" /\ call'.objects # << >>) =>
          LET ts == tracker_service
              timestamp == call'.timestamp
              same == C9_SameCamera(ts, call'.camera_id)
              expired == C9_Expired(ts, timestamp, call'.camera_id)
              returned == dict_keys(call'.new_tracks)
          IN  /\ \A i \in expired : ts.tracks[i].key \notin returned
              /\ same = expired =>
                    /\ returned # {}
                    /\ returned \cap AllocatedIds(ts.next_id) = {}
              /\ \A i \in same :
                    ( /\ same = {i}
                      /\ Len(call'.objects) = 1
                      /\ timestamp - ts.tracks[i].value.timestamp
                           = ts.max_time_diff
                      /\ ts.tracks[i].value.bbox = call'.objects[1].bbox )
                    => returned = {ts.tracks[i].key} ]_vars

\* C9 witness.  max_time_diff 1: track_0 was last updated at 0, the update at
\* 2 on its camera removed it, and the one detection got track_1.
C9_Witness ==
    /\ instance = "TrackerService"
    /\ tracker_service.max_time_diff = 1
    /\ call.op = "TrackerService.update"
    /\ call.timestamp = 2
    /\ Len(call.objects) = 1
    /\ tracker_service.next_id = 2
    /\ dict_keys(tracker_service.tracks) = {"track_1"}
    /\ dict_keys(call.new_tracks) = {"track_1"}

\* C10 (as claimed).  Tracker expiry: in every Tracker.update, a live track
\* whose last update is more than max_time_diff before the timestamp of the
\* second set is absent from the live set afterwards.
C10_TrackerExpiry ==
    [][ call'.op = "Tracker.update" =>
          \A i \in 1..Len(tracker.tracked_objects) :
              call'.detections_t2.timestamp - tracker.tracked_objects[i].timestamp
                  > tracker.max_time_diff
              => tracker.tracked_objects[i].id \notin LiveIds(tracker') ]_vars

\* The indices (1-based) of the live tracks the greedy loop binds to a
\* detection of the batch.
C11_MatchedTracks(t, objects) ==
    LET matched_indices == matched_indices_of(t, objects)
    IN  { matched_indices[k][1] + 1 : k \in 1..Len(matched_indices) }

\* C11 (as claimed).  Retention of unmatched tracks: in every Tracker.update
\* on a non-empty live set with a non-empty second set, a live track that the
\* matching leaves unmatched and whose last update is at most max_time_diff
\* before the new timestamp is in the live set afterwards, the same record.
C11_UnmatchedRetained ==
    [][ ( /\ call'.op = "Tracker.update"
          /\ tracker.tracked_objects # << >>
          /\ call'.detections_t2.objects # << >> ) =>
          \A i \in 1..Len(tracker.tracked_objects) :
              ( /\ i \notin C11_MatchedTracks(tracker, call'.detections_t2.objects)
                /\ call'.detections_t2.timestamp
                     - tracker.tracked_objects[i].timestamp
                     <= tracker.max_time_diff )
              => \E j \in 1..Len(tracker'.tracked_objects) :
                    tracker'.tracked_objects[j] = tracker.tracked_objects[i] ]_vars

\* C12 (as claimed).  Empty update: a Tracker.update whose second set has no
\* objects leaves in the live set exactly the tracks not older than
\* max_time_diff, unchanged and in order, and a TrackerService.update without
\* detections returns the tracks of the table not older than max_time_diff;
\* neither allocates an id.
C12_EmptyUpdate ==
    [][ /\ ( /\ call'.op = "Tracker.update"
             /\ tracker.tracked_objects # << >>
             /\ call'.detections_t2.objects = << >> ) =>
             LET Fresh(o) == call'.detections_t2.timestamp - o.timestamp
                                <= tracker.max_time_diff
             IN  /\ tracker'.tracked_objects
                      = SelectSeq(tracker.tracked_objects, Fresh)
                 /\ tracker'.next_id = tracker.next_id
        /\ ( /\ call'.op = "TrackerService.update"
             /\ call'.objects = << >> ) =>
             LET Fresh(e) == call'.timestamp - e.value.timestamp
                                <= tracker_service.max_time_diff
             IN  /\ call'.new_tracks = SelectSeq(tracker_service.tracks, Fresh)
                 /\ tracker_service'.next_id = tracker_service.next_id ]_vars

\* The table and the returned dict of a TrackerService.update after the first
\* k detections of the batch have been processed.
AfterDetections(ts, detection, k, timestamp, camera_id) ==
    tracker_service_loop([ts |-> ts, new_tracks |-> << >>],
                         SubSeq(detection, 1, k), timestamp, camera_id)

\* Intersection over union above one half, for boxes [x1, y1, x2, y2]:
\* intersection / (a1 + a2 - intersection) > 1/2 iff 3 * intersection > a1 + a2.
C13_Overlaps(a, b) ==
    LET w == min2(a[3], b[3]) - max2(a[1], b[1])
        h == min2(a[4], b[4]) - max2(a[2], b[2])
        intersection == IF w > 0 /\ h > 0 THEN w * h ELSE 0
    IN  3 * intersection
          > (a[3] - a[1]) * (a[4] - a[2]) + (b[3] - b[1]) * (b[4] - b[2])

C14_OneTrackPerDetection ==
    (instance = "TrackerService" /\ call.op = "TrackerService.update") =>
        /\ Len(call.new_tracks) = Len(call.objects)
        /\ \A i, j \in 1..Len(call.new_tracks) :
              i # j => call.new_tracks[i].key # call.new_tracks[j].key

\* C15.  Same-camera restriction.  In every TrackerService.update, a track of
\* the table whose camera_id differs from the call's is in the table
\* afterwards with the same id and the same record, and its id is not among
\* the ids returned: no detection was matched to it.
C15_SameCameraOnly ==
    [][ call'.op = "TrackerService.update" =>
          \A i \in 1..Len(tracker_service.tracks) :
              LET e == tracker_service.tracks[i]
              IN  e.value.camera_id # call'.camera_id =>
                    /\ \E j \in 1..Len(tracker_service'.tracks) :
                          tracker_service'.tracks[j] = e
                    /\ e.key \notin dict_keys(call'.new_tracks) ]_vars

\* C15 witness.  track_0 belongs to camera1 and is not too old; the last
\* update, for camera2, had one detection at track_0's box and returned it
\* under the new track_1.
C15_Witness ==
    /\ instance = "TrackerService"
    /\ call.op = "TrackerService.update"
    /\ call.camera_id = "camera2"
    /\ Len(call.objects) = 1
    /\ Len(tracker_service.tracks) = 2
    /\ tracker_service.tracks[1].key = "track_0"
    /\ tracker_service.tracks[1].value.camera_id = "camera1"
    /\ tracker_service.tracks[1].value.bbox = call.objects[1].bbox
    /\ call.timestamp - tracker_service.tracks[1].value.timestamp
         <= tracker_service.max_time_diff
    /\ tracker_service.next_id = 2
    /\ dict_keys(call.new_tracks) = {"track_1"}

\* C16 (as claimed).  Configuration validation: a Counter whose crossing line
\* has zero length, or whose direction is none of any, positive, negative, is
\* refused at construction, so the Counter of every Counter.update has a line
\* of positive length and one of the three directions.
C16_ConfigurationValidated ==
    (instance = "Counter" /\ call.op = "Counter.update") =>
        /\ line_start(counter) # line_end(counter)
        /\ counter.direction \in {"any", "positive", "negative"}

\* A detection with its width and height present and not negative.
C17_WellFormed(obj) ==
    /\ {"width", "height"} \subseteq DOMAIN obj
    /\ obj.width >= 0
    /\ obj.height >= 0

\* A detection set without its malformed detections.
C17_Clean(detections) ==
    [detections EXCEPT !.objects = SelectSeq(@, C17_WellFormed)]

\* C17 (as claimed).  Malformed detections are rejected one by one: a
\* Tracker.update on sets that hold detections with a missing or negative
\* width or height does not raise, and leaves the tracker as the same update
\* on the sets without those detections leaves it.
C17_MalformedSkipped ==
    [][ call'.op = "Tracker.update" =>
          /\ ~call'.raised
          /\ tracker' = tracker_update(tracker,
                                       C17_Clean(call'.detections_t1),
                                       C17_Clean(call'.detections_t2)) ]_vars

\* C18 (as claimed).  No half-applied update: a Tracker.update that raises
\* leaves the live tracks, next_id, the track histories and last_timestamp as
\* they were before the call, and a Counter.update that raises leaves the
\* stored positions, the counted set, the count and the recorded events as
\* they were.
C18_AllOrNothing ==
    [][ /\ (call'.op = "Tracker.update" /\ call'.raised) => tracker' = tracker
        /\ (call'.op = "Counter.update" /\ call'.raised) => counter' = counter
      ]_vars

\* The status stored for the job, "none" while no document is stored.
JobStatus(j) == IF "status" \in DOMAIN j.doc THEN j.doc.status ELSE "none"

\* C19.  Job status protocol: every step that changes the stored status of
\* a tracking job takes it from queued to processing, or from processing to
\* completed or to failed (the job's creation stores queued); so no step
\* takes a job from queued to completed or failed, and none changes the
\* status of a completed or failed job.
C19_StatusProtocol ==
    [][ \/ JobStatus(job') = JobStatus(job)
        \/ <<JobStatus(job), JobStatus(job')>> \in
              { <<"none", "queued">>,
                <<"queued", "processing">>,
                <<"processing", "completed">>,
                <<"processing", "failed">> } ]_vars

\* A job whose task has run to its end over at least two frames.
C19_Witness ==
    /\ instance = "Job"
    /\ job.pc = "done"
    /\ JobStatus(job) = "completed"
    /\ job.doc.detection_count >= 2

\* The crossings the Counter of the job recorded.
C20_Crossings == counter.crossing_timestamps

\* C20.  Job configuration is honoured: when a job has completed, the
\* Tracker its task built has the max_time_diff and max_distance stored in
\* the job's tracking_config, the Counter it built has the crossing line and
\* the direction stored in its counting_config, and a job whose direction is
\* "positive" has recorded no crossing of negative direction.
C20_ConfigurationHonoured ==
    (instance = "Job" /\ job.pc = "done" /\ JobStatus(job) = "completed") =>
        /\ job.doc.tracking_config # << >> =>
              /\ tracker.max_time_diff = job.doc.tracking_config.max_time_diff
              /\ tracker.max_distance = job.doc.tracking_config.max_distance
        /\ job.doc.counting_config # << >> =>
              /\ counter.crossing_line = job.doc.counting_config.crossing_line
              /\ counter.direction = job.doc.counting_config.direction
              /\ job.doc.counting_config.direction = "positive" =>
                    \A i \in 1..Len(C20_Crossings) :
                        C20_Crossings[i].direction # "negative"

\* The sign of the turn a -> b -> p (twice the signed area of the triangle).
C21_Orientation(a, b, p) == cross(minus(b, a), minus(p, a))

\* For p on the line through a and b: p lies between a and b.
C21_Between(a, b, p) ==
    /\ (a[1] <= p[1] /\ p[1] <= b[1]) \/ (b[1] <= p[1] /\ p[1] <= a[1])
    /\ (a[2] <= p[2] /\ p[2] <= b[2]) \/ (b[2] <= p[2] /\ p[2] <= a[2])

\* The closed segments p1-p2 and q1-q2 have a point in common.
C21_Intersect(p1, p2, q1, q2) ==
    LET d1 == C21_Orientation(q1, q2, p1)
        d2 == C21_Orientation(q1, q2, p2)
        d3 == C21_Orientation(p1, p2, q1)
        d4 == C21_Orientation(p1, p2, q2)
    IN  \/ d1 * d2 < 0 /\ d3 * d4 < 0
        \/ d1 = 0 /\ C21_Between(q1, q2, p1)
        \/ d2 = 0 /\ C21_Between(q1, q2, p2)
        \/ d3 = 0 /\ C21_Between(p1, p2, q1)
        \/ d4 = 0 /\ C21_Between(p1, p2, q2)

\* C21.  Segment intersection is correct: for every previous and current
\* centre on the grid, Counter._has_crossed_line returns true exactly when
\* the closed segment from the previous to the current centre and the closed
\* crossing line have a point in common.
C21_SegmentIntersection ==
    call.op = "Counter._has_crossed_line" =>
        (call.ret <=> C21_Intersect(call.prev_pos, call.curr_pos,
                                    line_start(counter), line_end(counter)))

\* The timestamps of a history never fall from one entry to the next.
C22_NonDecreasing(history) ==
    \A i \in 1..(Len(history) - 1) :
        history[i].timestamp <= history[i + 1].timestamp

\* C22.  History ordering: every Tracker.update leaves each history it found
\* as a prefix of the history the track has afterwards (append-only), and in
\* every history it leaves the timestamps are non-decreasing, also when the
\* timestamps of the calls arrive out of order.
C22_HistoryOrdering ==
    [][ call'.op = "Tracker.update" =>
          /\ \A id \in DOMAIN tracker.track_history :
                /\ id \in DOMAIN tracker'.track_history
                /\ Len(tracker.track_history[id]) <=
                       Len(tracker'.track_history[id])
                /\ SubSeq(tracker'.track_history[id], 1,
                          Len(tracker.track_history[id])) =
                       tracker.track_history[id]
          /\ \A id \in DOMAIN tracker'.track_history :
                C22_NonDecreasing(tracker'.track_history[id]) ]_vars

\* The track ids a CounterService.update reported as crossed.
C23_Reported(crossed_objects) ==
    { crossed_objects[i].track_id : i \in 1..Len(crossed_objects) }

\* C23.  The horizontal-threshold mode is a special case of the segment
\* mode: after every CounterService.update the service's count equals the
\* total_count of the Counter it wraps, and the ids that Counter holds as
\* counted are those it held before together with the ids the update
\* reported as crossed (so the ids reported so far are the counted ids).
C23_ThresholdIsSegmentMode ==
    [][ call'.op = "CounterService.update" =>
          /\ service'.count = counter'.total_count
          /\ counter'.counted_objects =
                 counter.counted_objects \cup C23_Reported(call'.crossed_objects)
      ]_vars

\* The ids of the objects handed to the last Counter.update, and of the
\* tracks handed to the last CounterService.update.
C24_ObjectIds(c) == { c.objects[i].id : i \in 1..Len(c.objects) }
C24_TrackIds(c) == { c.objects[i].track_id : i \in 1..Len(c.objects) }

\* C24.  Counts are immutable once recorded: no update lowers the total
\* count (of a Counter, or the count of a CounterService) or takes an id out
\* of the counted set; for a track the update does not contain, the counted
\* marker and the stored position stay as they were and no event names it;
\* and an update with no tracks changes nothing and reports no crossing.
C24_CountsImmutable ==
    [][ /\ counter'.total_count >= counter.total_count
        /\ counter.counted_objects \subseteq counter'.counted_objects
        /\ service'.count >= service.count
        /\ call'.op = "Counter.update" =>
              /\ \A id \in TrackIds \ C24_ObjectIds(call') :
                    /\ id \in counter'.counted_objects <=>
                           id \in counter.counted_objects
                    /\ id \in DOMAIN counter'.object_positions <=>
                           id \in DOMAIN counter.object_positions
                    /\ id \in DOMAIN counter.object_positions =>
                           counter'.object_positions[id] =
                               counter.object_positions[id]
                    /\ id \notin EventIds(Appended(counter.crossing_timestamps,
                                                   counter'.crossing_timestamps))
              /\ call'.objects = << >> =>
                    counter' = counter /\ call'.ret = 0
        /\ call'.op = "CounterService.update" =>
              /\ \A id \in TrackIds \ C24_TrackIds(call') :
                    /\ id \in DOMAIN service'.track_history <=>
                           id \in DOMAIN service.track_history
                    /\ id \in DOMAIN service.track_history =>
                           service'.track_history[id] =
                               service.track_history[id]
                    /\ id \notin C23_Reported(call'.crossed_objects)
              /\ call'.objects = << >> =>
                    /\ service' = service
                    /\ counter' = counter
                    /\ call'.crossed_objects = << >>
      ]_vars

\* A Counter was updated without a track it has counted.
C24_Witness ==
    /\ call.op = "Counter.update"
    /\ counter.counted_objects \ C24_ObjectIds(call) # {}

\* The track carries the box, confidence and class of the detection, and the
\* timestamp of the batch.
C25_Carries(track, obj, timestamp) ==
    /\ track.x = obj.x /\ track.y = obj.y
    /\ track.width = obj.width /\ track.height = obj.height
    /\ track.confidence = obj.confidence
    /\ track.class_id = obj.class_id
    /\ track.timestamp = timestamp

\* The tracker as Tracker._match_objects finds it in a Tracker.update: with
\* the tracks of the first set when the live set was empty.
C25_Before(t, detections_t1) ==
    IF t.tracked_objects = << >>
    THEN initialize_tracks(t, detections_t1.objects, detections_t1.timestamp)
    ELSE t

\* C25.  Result of a Tracker match step: every track of the live set after
\* Tracker._match_objects carries the box, confidence, class and timestamp
\* of exactly one detection of the new batch; its id is the id of a track of
\* the live set before, whose history gained exactly that one entry, or a
\* 'track_n' id allocated in this step, with a history of that one entry;
\* and it is never the 'id' of a detection.
C25_MatchStepResult ==
    [][ call'.op = "Tracker.update" =>
          LET batch == call'.detections_t2.objects
              timestamp == call'.detections_t2.timestamp
              before == C25_Before(tracker, call'.detections_t1)
              live == tracker'.tracked_objects
              prev_ids == { before.tracked_objects[i].id :
                              i \in 1..Len(before.tracked_objects) }
          IN  \A i \in 1..Len(live) :
                /\ Cardinality({ j \in 1..Len(batch) :
                       C25_Carries(live[i], batch[j], timestamp) }) = 1
                /\ \/ /\ live[i].id \in prev_ids
                      /\ tracker'.track_history[live[i].id] =
                             Append(before.track_history[live[i].id], live[i])
                   \/ /\ live[i].id \notin DOMAIN before.track_history
                      /\ \E n \in before.next_id..(tracker'.next_id - 1) :
                             live[i].id = track_id(n)
                      /\ tracker'.track_history[live[i].id] = <<live[i]>>
                /\ \A j \in 1..Len(batch) : live[i].id # batch[j].id
      ]_vars

\* A match step left a track it matched beside a track it allocated.
C25_Witness ==
    /\ call.op = "Tracker.update"
    /\ \E i, j \in 1..Len(tracker.tracked_objects) :
          /\ Len(tracker.track_history[tracker.tracked_objects[i].id]) >= 2
          /\ Len(tracker.track_history[tracker.tracked_objects[j].id]) = 1

\* The fields only the result of a job is written with.
C26_ResultFields ==
    {"object_count", "detection_count", "tracked_objects_count", "results"}

\* C26.  A failed job persists no partial results: a job whose task raised
\* is stored as failed with an error message, and as long as a job is not
\* completed its document holds none of object_count, detection_count,
\* tracked_objects_count and results.
C26_NoPartialResults ==
    /\ JobStatus(job) = "failed" => "error" \in DOMAIN job.doc
    /\ JobStatus(job) # "completed" => DOMAIN job.doc \cap C26_ResultFields = {}
    /\ job.pc = "done" => JobStatus(job) \in {"completed", "failed"}

\* The task of a job raised and has ended.
C26_Witness ==
    /\ job.pc = "done"
    /\ JobStatus(job) = "failed"
    /\ job.doc.error = "Upload not found"

\* C27.  Every scheduled job terminates in a final status: under a fair
\* scheduler a job whose task was scheduled is eventually stored as completed
\* or as failed, whatever the number of frames of its upload and also when
\* the upload record is missing.
C27_JobTerminates ==
    (job.pc = "scheduled") ~> (JobStatus(job) \in {"completed", "failed"})

\* A job over an upload of at most one frame has completed.
C27_Witness ==
    /\ job.pc = "done"
    /\ JobStatus(job) = "completed"
    /\ job.doc.detection_count <= 1

\* The sum of the 'count' fields of counts_by_timestamp.
RECURSIVE C28_SumCounts(_)
C28_SumCounts(counts) ==
    IF counts = << >> THEN 0
    ELSE Head(counts).count + C28_SumCounts(Tail(counts))

\* total_count, the counted set, the events and the per-update counts agree.
C28_Consistent(c) ==
    /\ c.total_count = Cardinality(c.counted_objects)
    /\ c.total_count = Len(c.crossing_timestamps)
    /\ c.total_count = C28_SumCounts(c.counts_by_timestamp)

\* C28.  Counter bookkeeping invariant: after every Counter.update,
\* total_count equals the size of counted_objects, the number of entries of
\* crossing_timestamps and the sum of the 'count' fields of
\* counts_by_timestamp; and the value an update returns is the increase of
\* total_count during that update.
C28_Bookkeeping ==
    [][ call'.op = "Counter.update" =>
          /\ C28_Consistent(counter')
          /\ ~call'.raised =>
                call'.ret = counter'.total_count - counter.total_count ]_vars

\* The entries of one track in the live sets the Counter was updated with,
\* in the order of the updates.
RECURSIVE C29_Shown(_, _)
C29_Shown(batches, id) ==
    IF batches = << >> THEN << >>
    ELSE LET IsTrack(obj) == obj.id = id
         IN  SelectSeq(Head(batches), IsTrack) \o C29_Shown(Tail(batches), id)

\* C29.  The job pipeline shows the counter every recorded track position:
\* when a job has completed, the Counter was updated, for every track, with
\* the entries of that track's history, all of them and in their order (the
\* entry made from the first detection batch included); and a track with two
\* consecutive history entries on either side of the crossing line is counted.
C29_EveryPositionShown ==
    (instance = "Job" /\ call.op = "process_tracking_job") =>
        \A id \in DOMAIN tracker.track_history :
            /\ C29_Shown(call.objects, id) = tracker.track_history[id]
            /\ (\E k \in 1..(Len(tracker.track_history[id]) - 1) :
                    has_crossed_line(counter,
                        position_of(tracker.track_history[id][k]),
                        position_of(tracker.track_history[id][k + 1])))
                  => id \in counter.counted_objects

\* The side of the line a track's bbox lies on: "before", "after", or "" on
\* the line.
C30_Side(sv, bbox) ==
    IF bbox[2] + bbox[4] < 2 * sv.line_position THEN "before"
    ELSE IF bbox[2] + bbox[4] > 2 * sv.line_position THEN "after"
    ELSE ""

====
